---- MODULE Spec2Model ----
(***************************************************************************)
(* Model of walkers.py: Walker, WalkingSystem.next_state, states,          *)
(* get_current_state, compute_3d_vectrices and the curves/rings            *)
(* properties.                                                             *)
(*                                                                         *)
(* Numbers.  Coordinates are Python numbers.  The model draws every        *)
(* relation coefficient from k/Q, Q = 4, and stores a coordinate c as the  *)
(* integer c * unit, the unit a power of two chosen in Init so large that  *)
(* every division of line 106 within MaxSteps calls of next_state is       *)
(* exact.  The values are dyadic rationals of far fewer than 53            *)
(* significant bits, on which IEEE double arithmetic is exact as well;     *)
(* rounding, which sets in after more steps, is outside the model.         *)
(*                                                                         *)
(* Objects.  Walker.position is a Python list, a mutable object; several   *)
(* names can refer to the same list.  heap maps a list's identity to its   *)
(* contents, and position[w], and every state tuple, hold identities.      *)
(***************************************************************************)
EXTENDS Integers, Sequences, FiniteSets, TLC

\* ---- bounds of the model ------------------------------------------------
MaxIter == 2        \* iterations is drawn from 0..MaxIter
MaxSteps == 3       \* next_state() is executed at most MaxSteps times in a behaviour
MaxRel == 2         \* a system of the general family holds at most MaxRel relation entries

\* ---- program constants ----------------------------------------------------
Dim == 3            \* walkers live in 3 dimensions

\* ---- the inputs ---------------------------------------------------------------
Q == 2 ^ 2                          \* a relation coefficient is k/Q
Scale == 2 ^ (MaxRel * MaxSteps)    \* unit of the general family (k even: one bit per entry and step)
PairScale == Q ^ (2 * MaxSteps)     \* unit of the pair family (two entries per step)
CoefNums == {-2, 0, 2}              \* general family: -1/2, 0, 1/2
PairNums == {-3, -2, -1, 1, 2, 3}   \* pair family: -3/4 .. 3/4
WalkerCounts == 0..3
Layout == << <<0, 0, 0>>, <<10, 0, 0>>, <<0, 4, 2>> >>     \* where the walkers start
PairLayouts == { Layout, << <<0, 4, 2>>, <<0, 4, 2>> >> }  \* in the pair family: apart, or together
None == << >>                        \* Python's None; a present value x is << x >>

VARIABLES
    walkers,        \* WalkingSystem.walkers: ordered dict, walkers[w] = w's relations in insertion order
    iterations,     \* WalkingSystem.iterations
    start_position, \* Walker.start_position of each walker
    position,       \* Walker.position of each walker: the identity of a list
    heap,           \* contents of every list object
    curves,         \* WalkingSystem.__curves
    rings,          \* WalkingSystem.__rings
    gen,            \* the generator object returned by the latest states() call
    out,            \* what the consumer of gen has received: the yielded states, each with the values it showed when yielded
    result,         \* what the latest call by the user returned or raised; a returned state
                    \* comes with the values it showed when it was returned, the return of
                    \* compute_3d_vectrices() with the history of the call (advanced, began)
    stepCount,      \* history: number of next_state() executions so far
    prev,           \* history: coordinates of every walker when the latest next_state() began
    computed,       \* history: compute_3d_vectrices() has returned
    firstPass       \* history: progress of the first pass over states() on the fresh system

vars == << walkers, iterations, start_position, position, heap, curves, rings,
           gen, out, result, stepCount, prev, computed, firstPass >>

N == Len(walkers)
W == 1..N
Axes == 1..Dim

\* ---- Walker -----------------------------------------------------------------

\* Walker.__init__: start_position = tuple(position); position = list(position),
\* a fresh list for every walker.
WalkerInit(pts) ==
    [ start_position |-> pts,
      position       |-> [w \in DOMAIN pts |-> w],
      heap           |-> pts ]

\* the coordinates of all walkers, read through their position lists
Vals(pos, h) == [w \in DOMAIN pos |-> h[pos[w]]]

\* ---- two-word squares, so that distance comparisons never overflow --------
Limb == 2 ^ 15
Wide == Limb * Limb
Abs(x) == IF x < 0 THEN -x ELSE x
Norm(hi, lo) == << hi + (lo \div Wide), lo % Wide >>
Sq(x) ==
    LET a   == Abs(x)
        x1  == a \div Limb
        x0  == a % Limb
        mid == 2 * x1 * x0
    IN  Norm(x1 * x1 + (mid \div Limb), (mid % Limb) * Limb + x0 * x0)
Add2(a, b) == Norm(a[1] + b[1], a[2] + b[2])
Less2(a, b) == a[1] < b[1] \/ (a[1] = b[1] /\ a[2] < b[2])

\* Walker.distance_from, squared: sqrt is strictly increasing, so comparing
\* squared distances compares distances.
RECURSIVE SumSq(_, _, _)
SumSq(p, o, i) ==
    IF i > Len(p) THEN << 0, 0 >>
    ELSE Add2(Sq(o[i] - p[i]), SumSq(p, o, i + 1))
distance_from(p, o) == SumSq(p, o, 1)

\* ---- WalkingSystem.next_state ---------------------------------------------

\* a slip: = written for +=
UpdateAssign(p, o, k) == ((o - p) * k) \div Q

\* line 106 for one axis: pos[i] += (related_wlkr.position[i] - pos[i]) * relation
Update(p, o, k) == p + ((o - p) * k) \div Q

\* lines 105-106: the axis loop, writing into the list pos in place; the
\* related walker's list is read from the same heap.
UpdateList(h, pos, rpos, k) ==
    [h EXCEPT ![pos] = [i \in DOMAIN h[pos] |-> Update(h[pos][i], h[rpos][i], k)]]

\* lines 104-106: the relations of walker w, in dict order, from entry j on
RECURSIVE ApplyRelations(_, _, _, _, _)
ApplyRelations(wk, posn, h, w, j) ==
    IF j > Len(wk[w]) THEN h
    ELSE ApplyRelations(wk, posn,
                        UpdateList(h, posn[w], posn[wk[w][j].to], wk[w][j].rel),
                        w, j + 1)

\* lines 102-107: the walkers in dict order, from walker w on.  pos = wlkr.position
\* binds the list itself, so wlkr.position = pos leaves position unchanged.
RECURSIVE WalkFrom(_, _, _, _)
WalkFrom(wk, posn, h, w) ==
    IF w > Len(wk) THEN h
    ELSE WalkFrom(wk, posn, ApplyRelations(wk, posn, h, w, 1), w + 1)

\* the update in which every term reads the positions v of the start of the call
RECURSIVE Pull(_, _, _, _, _)
Pull(wk, v, w, i, j) ==
    IF j > Len(wk[w]) THEN 0
    ELSE ((v[wk[w][j].to][i] - v[w][i]) * wk[w][j].rel) \div Q + Pull(wk, v, w, i, j + 1)
Simultaneous(wk, v) ==
    [w \in DOMAIN v |-> [i \in DOMAIN v[w] |-> v[w][i] + Pull(wk, v, w, i, 1)]]

\* a different policy: every walker is moved from the positions of the start of the call
SimultaneousHeap(wk, posn, h) ==
    [ref \in DOMAIN h |-> Simultaneous(wk, Vals(posn, h))[CHOOSE w \in DOMAIN posn : posn[w] = ref]]

\* the heap after one next_state()
NextHeap(wk, posn, h) == WalkFrom(wk, posn, h, 1)

\* get_current_state: the tuple of the walkers' position lists (identities)
get_current_state(posn) == posn

Snapshot(posn, h) == [ state |-> get_current_state(posn), vals |-> Vals(posn, h) ]


\* ---- the curves and rings properties --------------------------------------

\* Python's None and a present value
IsNone(x) == Len(x) = 0
Some(x) == << x >>
Get(x) == x[1]

\* a slip: the getter without its guard
property_get_unguarded(stored) == [ exc |-> "none", val |-> stored ]

\* lines 51-56 and 61-66: what reading the property curves, or rings, gives: the
\* getter raises ValueError while the stored value is None.  A read changes nothing.
property_get(stored) ==
    IF IsNone(stored) THEN [ exc |-> "ValueError", val |-> None ]
    ELSE [ exc |-> "none", val |-> stored ]

\* ---- WalkingSystem.states ---------------------------------------------------

\* a slip: one round too many
LoopContinuesInclusive(iteration, n) == iteration <= n

\* line 112: for iteration in range(self.iterations)
LoopContinues(iteration, n) == iteration < n

\* a slip: the generator forgets to advance the system
ResumeWithoutStep(wk, posn, h) == h

\* line 114: self.next_state(), after the consumer has resumed the generator
Resume(wk, posn, h) == NextHeap(wk, posn, h)

\* ---- WalkingSystem.compute_3d_vectrices -------------------------------------

\* line 118: one entry per walker, three empty coordinate lists each
EmptyCurves(n) == [w \in 1..n |-> [k \in Axes |-> << >>]]

\* a slip: (j + 1) % 3 for j % 3
CurvesAppendShifted(cv, vals) ==
    [w \in DOMAIN cv |-> [k \in Axes |-> Append(cv[w][k], vals[w][(k % Dim) + 1])]]

\* lines 123-125: curves[i % len(walkers)][j % 3].append(coord)
CurvesAppend(cv, vals) ==
    [w \in DOMAIN cv |-> [k \in Axes |-> Append(cv[w][k], vals[w][k])]]

\* lines 122-129: the coordinates of all walkers per axis, in walker order, then
\* ring[i].append(ring[i][0]); defined when there is a walker
RingOf(vals) ==
    [k \in Axes |->
        LET open == [i \in DOMAIN vals |-> vals[i][k]]
        IN  Append(open, open[1])]

\* line 129 on an empty ring: ring[i][0] raises IndexError
RingRaises(vals) == Len(vals) = 0

\* lines 121-130: the loop over self.states() from loop index t on.  pv is the
\* heap before the latest next_state().
RECURSIVE Vectrices(_, _, _, _, _, _, _, _)
Vectrices(wk, posn, n, h, t, cv, rg, pv) ==
    IF ~LoopContinues(t, n)
    THEN [ exc |-> "none", heap |-> h, curves |-> cv, rings |-> rg, advanced |-> t, prev |-> pv ]
    ELSE IF RingRaises(Vals(posn, h))
    THEN [ exc |-> "IndexError", heap |-> h, curves |-> cv, rings |-> rg, advanced |-> t, prev |-> pv ]
    ELSE Vectrices(wk, posn, n, Resume(wk, posn, h), t + 1,
                   CurvesAppend(cv, Vals(posn, h)),
                   Append(rg, RingOf(Vals(posn, h))),
                   h)

\* ---- the systems Init draws from ---------------------------------------------

Scaled(pts, unit) == [w \in DOMAIN pts |-> [i \in DOMAIN pts[w] |-> pts[w][i] * unit]]

\* a relations dict of walker w among n walkers: distinct keys, never w itself
Entry(w, n) == [to : (1..n) \ {w}, rel : CoefNums]
RelationMaps(w, n) ==
    { << >> } \cup { << e >> : e \in Entry(w, n) }
              \cup { << e[1], e[2] >> : e \in { f \in Entry(w, n) \X Entry(w, n) : f[1].to # f[2].to } }
AllRelationMaps(n) == UNION { RelationMaps(w, n) : w \in 1..n }

RECURSIVE EntryCount(_, _)
EntryCount(wk, w) == IF w > Len(wk) THEN 0 ELSE Len(wk[w]) + EntryCount(wk, w + 1)

\* all coefficients of a graph are 0, or none is
Uniform(wk) ==
    \/ \A w \in DOMAIN wk : \A j \in DOMAIN wk[w] : wk[w][j].rel = 0
    \/ \A w \in DOMAIN wk : \A j \in DOMAIN wk[w] : wk[w][j].rel # 0

\* the relation graphs over n walkers with at most MaxRel entries
RelationGraphs(n) ==
    { f \in [1..n -> AllRelationMaps(n)] :
        /\ \A w \in 1..n : f[w] \in RelationMaps(w, n)
        /\ EntryCount(f, 1) <= MaxRel
        /\ Uniform(f) }

\* general family: up to three walkers and a relation graph of at most MaxRel
\* entries, whose coefficients are all 0 or all different from 0
GeneralSystems ==
    UNION { { [walkers |-> wk, points |-> Scaled(SubSeq(lay, 1, n), Scale)] :
                wk \in RelationGraphs(n), lay \in {Layout} } : n \in WalkerCounts }

\* pair family: two walkers with the same coefficient towards each other
PairSystems ==
    { [walkers |-> << << [to |-> 2, rel |-> k] >>, << [to |-> 1, rel |-> k] >> >>,
       points  |-> Scaled(SubSeq(lay, 1, 2), PairScale)] :
        k \in PairNums, lay \in PairLayouts }

Systems == GeneralSystems \cup PairSystems

\* a generator object: where it stands and, as history, how often it has called
\* next_state() and which pass over the system it is
NoGen == [status |-> "none", iteration |-> 0, advanced |-> 0, pass |-> "other"]

\* WalkingSystem.__init__ on freshly built walkers
Init ==
    \E sys \in Systems, n \in 0..MaxIter :
        /\ walkers = sys.walkers
        /\ iterations = n
        /\ start_position = WalkerInit(sys.points).start_position
        /\ position = WalkerInit(sys.points).position
        /\ heap = WalkerInit(sys.points).heap
        /\ curves = None
        /\ rings = None
        /\ gen = NoGen
        /\ out = << >>
        /\ result = [op |-> "none", exc |-> "none", val |-> None]
        /\ stepCount = 0
        /\ prev = << >>
        /\ computed = FALSE
        /\ firstPass = "none"

system == << walkers, iterations, start_position, position >>

\* ---- the operations -----------------------------------------------------------

\* get_current_state() called by the user
GetCurrentState ==
    /\ result' = [op |-> "get_current_state", exc |-> "none", val |-> Some(Snapshot(position, heap))]
    /\ UNCHANGED << system, heap, curves, rings, gen, out, stepCount, prev,
                    computed, firstPass >>

\* next_state() called by the user
NextState ==
    /\ stepCount < MaxSteps
    /\ heap' = NextHeap(walkers, position, heap)
    /\ result' = [op |-> "next_state", exc |-> "none", val |-> Some(Snapshot(position, heap'))]
    /\ stepCount' = stepCount + 1
    /\ prev' = Vals(position, heap)
    /\ firstPass' = "spoiled"
    /\ UNCHANGED << system, curves, rings, gen, out, computed >>

\* states(): a new generator object; no line of the body runs yet
States ==
    /\ gen' = [status |-> "created", iteration |-> 0, advanced |-> 0, pass |-> "other"]
    /\ out' = << >>
    /\ firstPass' = IF firstPass = "running" THEN "spoiled" ELSE firstPass
    /\ UNCHANGED << system, heap, curves, rings, result, stepCount, prev, computed >>

\* next(gen) on the new generator: run to the first yield, or finish
GenStart ==
    /\ gen.status = "created"
    /\ LET pass == IF firstPass = "none" /\ stepCount = 0 THEN "first"
                   ELSE IF firstPass = "done" THEN "second" ELSE "other"
       IN  IF LoopContinues(0, iterations)
           THEN /\ gen' = [gen EXCEPT !.status = "suspended", !.pass = pass]
                /\ out' = Append(out, Snapshot(position, heap))
                /\ firstPass' = IF pass = "first" THEN "running"
                                ELSE IF pass = "second" THEN "continued" ELSE firstPass
           ELSE /\ gen' = [gen EXCEPT !.status = "done", !.pass = pass]
                /\ out' = out
                /\ firstPass' = IF pass = "first" THEN "done"
                                ELSE IF pass = "second" THEN "continued" ELSE firstPass
    /\ UNCHANGED << system, heap, curves, rings, result, stepCount, prev, computed >>

\* next(gen) on the suspended generator: next_state(), then the next yield, or finish
GenResume ==
    /\ gen.status = "suspended"
    /\ stepCount < MaxSteps
    /\ heap' = Resume(walkers, position, heap)
    /\ stepCount' = stepCount + 1
    /\ prev' = Vals(position, heap)
    /\ IF LoopContinues(gen.iteration + 1, iterations)
       THEN /\ gen' = [gen EXCEPT !.iteration = @ + 1, !.advanced = @ + 1]
            /\ out' = Append(out, Snapshot(position, heap'))
            /\ firstPass' = firstPass
       ELSE /\ gen' = [gen EXCEPT !.iteration = @ + 1, !.advanced = @ + 1, !.status = "done"]
            /\ out' = out
            /\ firstPass' = IF gen.pass = "first" /\ firstPass = "running" THEN "done" ELSE firstPass
    /\ UNCHANGED << system, curves, rings, result, computed >>

\* compute_3d_vectrices(): the whole call, which consumes a states() generator of its own
Compute3dVectrices ==
    /\ stepCount + iterations <= MaxSteps
    /\ LET r == Vectrices(walkers, position, iterations, heap, 0,
                          EmptyCurves(N), << >>, prev)
       IN  /\ heap' = r.heap
           /\ stepCount' = stepCount + r.advanced
           /\ prev' = IF r.advanced > 0 THEN Vals(position, r.prev) ELSE prev
           /\ IF r.exc = "none"
              THEN /\ curves' = Some(r.curves)
                   /\ rings' = Some(r.rings)
                   /\ computed' = TRUE
                   /\ result' = [op |-> "compute", exc |-> "none",
                                 val |-> Some([curves |-> r.curves, rings |-> r.rings,
                                               advanced |-> r.advanced,
                                               began |-> stepCount])]
              ELSE /\ UNCHANGED << curves, rings, computed >>
                   /\ result' = [op |-> "compute", exc |-> r.exc, val |-> None]
           /\ firstPass' = IF firstPass = "none" /\ stepCount = 0 /\ r.exc = "none" THEN "done"
                           ELSE IF firstPass = "done" THEN "continued" ELSE "spoiled"
    /\ UNCHANGED << system, gen, out >>

Next ==
    \/ GetCurrentState
    \/ NextState
    \/ States
    \/ GenStart
    \/ GenResume
    \/ Compute3dVectrices

Spec == Init /\ [][Next]_vars

\* ---- what the claims speak of ---------------------------------------------------

Current == Vals(position, heap)

\* the heap k executions of next_state() after construction
RECURSIVE HeapAfter(_, _)
HeapAfter(h, k) == IF k = 0 THEN h ELSE HeapAfter(NextHeap(walkers, position, h), k - 1)
StateAfter(k) == Vals(position, HeapAfter(WalkerInit(start_position).heap, k))

SymmetricPair ==
    /\ N = 2
    /\ Len(walkers[1]) = 1
    /\ Len(walkers[2]) = 1
    /\ walkers[1][1].rel = walkers[2][1].rel
PairCoef == walkers[1][1].rel

AllZero == \A w \in W : \A j \in DOMAIN walkers[w] : walkers[w][j].rel = 0

HasReturnedState == result.op \in {"next_state", "get_current_state"}
ComputeReturned == result.op = "compute" /\ result.exc = "none"

\* C1: after a call of next_state(), every walker stands where the positions of
\* the start of that call alone put it (from (0,0,0), (10,0,0) with 1/2 both
\* ways: both at (5,0,0)).
C1_SimultaneousUpdate ==
    stepCount > 0 => Current = Simultaneous(walkers, prev)

\* C2: on a fresh system states() yields exactly `iterations` states, and the
\* first one shows, when it is yielded, the walkers' start positions.
C2_StatesOfFreshSystem ==
    gen.pass = "first" =>
        /\ Len(out) <= iterations
        /\ gen.status = "done" => Len(out) = iterations
        /\ Len(out) >= 1 => out[1].vals = start_position

C2_Witness ==
    /\ gen.pass = "first"
    /\ gen.status = "done"
    /\ iterations = MaxIter
    /\ Len(out) = MaxIter
    /\ out[1].vals = start_position
    /\ Current # start_position

C4_RingsForAllInputs ==
    result.op = "compute" =>
        /\ result.exc = "none"
        /\ Len(Get(rings)) = iterations
        /\ \A t \in DOMAIN Get(rings) : \A k \in Axes :
              /\ Len(Get(rings)[t][k]) = N + 1
              /\ Get(rings)[t][k][1] = Get(rings)[t][k][N + 1]

\* C5: after compute_3d_vectrices() curves has an entry per walker with three
\* sequences of `iterations` values, curves[w][k][t] is coordinate k of walker w
\* in the t-th state of the sequence, and rings[t][k][w] is the same value.
C5_CurvesAreHistories ==
    ComputeReturned =>
        LET cv == Get(curves)
            rg == Get(rings)
        IN  /\ Len(cv) = N
            /\ \A w \in W : \A k \in Axes :
                  /\ DOMAIN cv[w] = Axes
                  /\ Len(cv[w][k]) = iterations
                  /\ \A t \in 1..iterations :
                        /\ cv[w][k][t] = StateAfter(Get(result.val).began + t - 1)[w][k]
                        /\ rg[t][k][w] = cv[w][k][t]

C5_Witness ==
    /\ ComputeReturned
    /\ N = 3
    /\ iterations = MaxIter
    /\ Len(Get(curves)[1][1]) = MaxIter
    /\ Get(curves)[1][1][1] # Get(curves)[1][1][MaxIter]

\* C6: a pass over states(), or compute_3d_vectrices(), executes next_state()
\* exactly `iterations` times, and a second pass goes on from there: its first
\* state shows the positions `iterations` steps after construction.
C6_SecondPassContinues ==
    /\ gen.status = "done" => gen.advanced = iterations
    /\ ComputeReturned => Get(result.val).advanced = iterations
    /\ (gen.pass = "second" /\ Len(out) >= 1) => out[1].vals = StateAfter(iterations)

C6_Witness ==
    /\ gen.pass = "second"
    /\ Len(out) >= 1
    /\ out[1].vals = StateAfter(iterations)
    /\ out[1].vals # start_position

\* C7: reading curves or rings raises, and gives no data, as long as
\* compute_3d_vectrices() has not returned; afterwards both reads give the
\* computed data.
C7_ReadsNeedCompute ==
    /\ ~computed =>
          /\ property_get(curves) = [exc |-> "ValueError", val |-> None]
          /\ property_get(rings) = [exc |-> "ValueError", val |-> None]
    /\ computed =>
          /\ property_get(curves).exc = "none" /\ ~IsNone(property_get(curves).val)
          /\ property_get(rings).exc = "none" /\ ~IsNone(property_get(rings).val)
    /\ ComputeReturned =>
          /\ Get(property_get(curves).val) = Get(result.val).curves
          /\ Get(property_get(rings).val) = Get(result.val).rings

C7_Witness ==
    /\ ComputeReturned
    /\ computed
    /\ iterations > 0
    /\ property_get(curves).exc = "none"
    /\ property_get(rings).exc = "none"

\* C8: when every relation coefficient is 0, or every relation map empty, the
\* walkers stay at their start positions whatever is called, and states()
\* yields these positions every time.
C8_ZeroRelationsNoOp ==
    AllZero =>
        /\ Current = start_position
        /\ \A i \in DOMAIN out : out[i].vals = start_position

C8_Witness ==
    /\ AllZero
    /\ EntryCount(walkers, 1) = MaxRel
    /\ stepCount = MaxSteps
    /\ Len(out) = MaxIter
    /\ Current = start_position

\* C9: a state that next_state() or get_current_state() returned, or states()
\* yielded, keeps the coordinates it showed then, whatever is called later.
C9_StatesAreSnapshots ==
    /\ \A i \in DOMAIN out : Vals(out[i].state, heap) = out[i].vals
    /\ HasReturnedState => Vals(Get(result.val).state, heap) = Get(result.val).vals

\* C10: a walker with several relations, all to walkers that do not move, goes in
\* one next_state() from p to p + the sum of (p_B - p) * relation, every term with
\* the p of the start of the call.
C10_SumOverRelations ==
    \A a \in W :
        ( /\ stepCount > 0
          /\ Len(walkers[a]) >= 2
          /\ \A j \in DOMAIN walkers[a] : Len(walkers[walkers[a][j].to]) = 0 )
        => Current[a] = Simultaneous(walkers, prev)[a]

====
